---------------------------- MODULE Spec2Model ----------------------------
(***************************************************************************)
(* Model of the BuzzGuard feedback API: the Joi validation and the route   *)
(* handlers of routes/feedback.js (src/DEPLOYMENT_GUIDE.md:139-444) and    *)
(* the Mongoose model of src/models/Feedback.js:163-364.                   *)
(*                                                                         *)
(* Text values are sequences of one-character strings, so that trimming,   *)
(* lowercasing, length rules, the e-mail patterns and substring tests are  *)
(* computed on the characters as the code computes them.                   *)
(*                                                                         *)
(* A handler is one action: it runs from the first statement of the async  *)
(* callback to the response.  The express-rate-limit middlewares in front  *)
(* of the handlers decide which requests reach a handler; the actions      *)
(* describe the requests that do.  The document store is available.        *)
(* lastReq and lastResp hold the request in hand and its response; Finish  *)
(* ends the exchange before the next request is taken.                     *)
(*                                                                         *)
(* Spec runs the handlers one at a time on records created through the     *)
(* API.  ListSpec, StatsSpec and SaveSpec run the list handler, the stats  *)
(* handler and Feedback.save() on stored documents the API alone does not  *)
(* produce (other ratings, priorities, caller tags).  ConcSpec splits the  *)
(* submit and stats handlers at their awaits, each store operation being   *)
(* one step, so that requests in progress interleave; the queries of the   *)
(* Promise.all of getStats are answered in the order they were sent.       *)
(***************************************************************************)
EXTENDS Integers, Sequences, FiniteSets, TLC

(***************************************************************************)
(* Bounds of the model.                                                    *)
(***************************************************************************)
MaxRecords == 2
MaxTicks == 2
TickMinutes == 60

(***************************************************************************)
(* Characters and strings.                                                 *)
(***************************************************************************)
UpperSeq == <<"A","B","C","D","E","F","G","H","I","J","K","L","M",
              "N","O","P","Q","R","S","T","U","V","W","X","Y","Z">>
LowerSeq == <<"a","b","c","d","e","f","g","h","i","j","k","l","m",
              "n","o","p","q","r","s","t","u","v","w","x","y","z">>
Digits == {"0","1","2","3","4","5","6","7","8","9"}

Range(s) == {s[i] : i \in DOMAIN s}

\* the lower-case letter of every upper-case letter
LowerMap ==
  [c \in Range(UpperSeq) |-> LowerSeq[CHOOSE i \in DOMAIN UpperSeq : UpperSeq[i] = c]]

\* String.prototype.toLowerCase on one character
ToLowerChar(c) == IF c \in DOMAIN LowerMap THEN LowerMap[c] ELSE c

\* String.prototype.toLowerCase
ToLowerCase(s) == [i \in DOMAIN s |-> ToLowerChar(s[i])]

\* String.prototype.trim: drops leading and trailing white space
Trim(s) ==
  LET solid == {i \in DOMAIN s : s[i] # " "}
  IN IF solid = {} THEN <<>>
     ELSE LET lo == CHOOSE i \in solid : \A j \in solid : i <= j
              hi == CHOOSE i \in solid : \A j \in solid : j <= i
          IN SubSeq(s, lo, hi)

\* String.prototype.includes
Includes(s, k) ==
  \E i \in 1..(Len(s) - Len(k) + 1) : SubSeq(s, i, i + Len(k) - 1) = k

\* a string of n copies of the character c
Str(n, c) == [i \in 1..n |-> c]

\* the regular-expression class \w
WordChars == Range(UpperSeq) \cup Range(LowerSeq) \cup Digits \cup {"_"}
IsWordChar(c) == c \in WordChars

\* the pieces of s between the occurrences of the character sep
Pieces(s, sep) ==
  LET cuts == {0, Len(s) + 1} \cup {i \in DOMAIN s : s[i] = sep}
  IN { SubSeq(s, a + 1, b - 1) :
         <<a, b>> \in {p \in cuts \X cuts :
                         p[1] < p[2] /\ ~\E c \in cuts : p[1] < c /\ c < p[2]} }

\* the piece after the last occurrence of sep
LastPiece(s, sep) ==
  LET cuts == {0} \cup {i \in DOMAIN s : s[i] = sep}
      last == CHOOSE a \in cuts : \A b \in cuts : b <= a
  IN SubSeq(s, last + 1, Len(s))

AtCount(s) == Cardinality({i \in DOMAIN s : s[i] = "@"})
LocalPart(s) == SubSeq(s, 1, (CHOOSE i \in DOMAIN s : s[i] = "@") - 1)
DomainPart(s) == SubSeq(s, (CHOOSE i \in DOMAIN s : s[i] = "@") + 1, Len(s))

(***************************************************************************)
(* Joi validation of the request body (feedbackValidation).                *)
(***************************************************************************)
\* top-level domains of the IANA list that Joi's email() checks against
\* (the ones the model's addresses use)
IanaTlds == { <<"c","o">>, <<"e","m","a","i","l">> }

\* Joi.string().email(): local-part@domain, at least two domain segments,
\* a known top-level domain; no conversion of the value
JoiEmail(s) ==
  /\ AtCount(s) = 1
  /\ LET l == LocalPart(s)
         d == DomainPart(s)
     IN /\ Len(l) >= 1
        /\ \A c \in Range(l) : IsWordChar(c) \/ c \in {".", "-", "+"}
        /\ Cardinality(Pieces(d, ".")) >= 1
        /\ \E i \in DOMAIN d : d[i] = "."
        /\ \A p \in Pieces(d, ".") :
             Len(p) >= 1 /\ \A c \in Range(p) : IsWordChar(c) \/ c = "-"
        /\ ToLowerCase(LastPiece(d, ".")) \in IanaTlds


\* the keys of a request body that the Joi object schema declares, in order
SchemaKeys == <<"name", "email", "contactNumber", "message">>

Has(b, k) == k \in DOMAIN b

NameMin == 2
NameMax == 100
ContactMin == 10
ContactMax == 20
MessageMin == 10
MessageMax == 1000

\* Joi.string().min(lo).max(hi).required() with the custom messages:
\* a missing key is any.required (default message), "" is string.empty,
\* then the rules in the order they are declared
JoiString(b, k, lo, hi, emptyMsg, minMsg, maxMsg, requiredMsg) ==
  IF ~Has(b, k) THEN <<requiredMsg>>
  ELSE IF b[k] = <<>> THEN <<emptyMsg>>
  ELSE IF Len(b[k]) < lo THEN <<minMsg>>
  ELSE IF Len(b[k]) > hi THEN <<maxMsg>>
  ELSE <<>>

NameViolation(b) ==
  JoiString(b, "name", NameMin, NameMax, "Name is required",
            "Name must be at least 2 characters long",
            "Name cannot exceed 100 characters", "\"name\" is required")

EmailViolation(b) ==
  IF ~Has(b, "email") THEN <<"\"email\" is required">>
  ELSE IF b.email = <<>> THEN <<"Email is required">>
  ELSE IF ~JoiEmail(b.email) THEN <<"Please provide a valid email address">>
  ELSE <<>>

ContactViolation(b) ==
  JoiString(b, "contactNumber", ContactMin, ContactMax,
            "Contact number is required",
            "Contact number must be at least 10 digits",
            "Contact number cannot exceed 20 characters",
            "\"contactNumber\" is required")

MessageViolation(b) ==
  JoiString(b, "message", MessageMin, MessageMax, "Message is required",
            "Message must be at least 10 characters long",
            "Message cannot exceed 1000 characters", "\"message\" is required")

\* a key the object schema does not declare is object.unknown
UnknownViolation(b) ==
  IF Has(b, "rating") THEN <<"\"rating\" is not allowed">> ELSE <<>>

\* the violations of all keys, in the order Joi visits them: the declared
\* keys in declaration order, then the undeclared ones
FieldViolations(b) ==
  NameViolation(b) \o EmailViolation(b) \o ContactViolation(b)
    \o MessageViolation(b) \o UnknownViolation(b)

\* validate() is called without options, so Joi's default abortEarly: true
\* applies: the error carries the first violation only
JoiDetails(b) ==
  LET all == FieldViolations(b)
  IN IF all = <<>> THEN <<>> ELSE <<Head(all)>>

(***************************************************************************)
(* The Mongoose document: casting, schema validation, pre-save hook.       *)
(***************************************************************************)
RatingMin == 1
RatingMax == 5
RatingDefault == 5
Priorities == {"low", "medium", "high", "urgent"}

\* an optional path holds <<>> when undefined and <<v>> when set
IsSet(opt) == opt # <<>>
Val(opt) == opt[1]

\* new Feedback(feedbackData): the schema setters (trim, lowercase) and
\* defaults; feedbackData is the validated body plus ipAddress and userAgent
\* in the submit handler, and may set priority and tags elsewhere.
\* An undefined required String path is held as the empty string (both fail
\* `required`); contactNumber is an optional path.
NewFeedback(value, ip, ua) ==
  [name |-> IF Has(value, "name") THEN Trim(value.name) ELSE <<>>,
   email |-> IF Has(value, "email") THEN ToLowerCase(Trim(value.email)) ELSE <<>>,
   contactNumber |-> IF Has(value, "contactNumber")
                     THEN <<Trim(value.contactNumber)>> ELSE <<>>,
   message |-> IF Has(value, "message") THEN Trim(value.message) ELSE <<>>,
   rating |-> IF Has(value, "rating") THEN value.rating ELSE RatingDefault,
   status |-> "new",
   ipAddress |-> ip,
   userAgent |-> ua,
   isPublic |-> TRUE,
   priority |-> IF Has(value, "priority") THEN value.priority ELSE "medium",
   tags |-> IF Has(value, "tags")
            THEN [i \in DOMAIN value.tags |-> ToLowerCase(Trim(value.tags[i]))]
            ELSE <<>>]

\* the e-mail pattern of the schema: /^[\w-\.]+@([\w-]+\.)+[\w-]{2,4}$/
SchemaEmailMatch(s) ==
  /\ AtCount(s) = 1
  /\ LET l == LocalPart(s)
         d == DomainPart(s)
         tld == LastPiece(d, ".")
     IN /\ Len(l) >= 1
        /\ \A c \in Range(l) : IsWordChar(c) \/ c \in {"-", "."}
        /\ \E i \in DOMAIN d : d[i] = "."
        /\ \A p \in Pieces(d, ".") :
             Len(p) >= 1 /\ \A c \in Range(p) : IsWordChar(c) \/ c = "-"
        /\ Len(tld) >= 2 /\ Len(tld) <= 4

\* required + minlength + maxlength of a required String path
SchemaRequiredString(v, lo, hi) == v # <<>> /\ Len(v) >= lo /\ Len(v) <= hi

\* the validation that save() runs before the pre('save') hook
SchemaValid(doc) ==
  /\ SchemaRequiredString(doc.name, NameMin, NameMax)
  /\ doc.email # <<>> /\ SchemaEmailMatch(doc.email)
  /\ IsSet(doc.contactNumber) =>
       /\ Len(Val(doc.contactNumber)) >= ContactMin
       /\ Len(Val(doc.contactNumber)) <= ContactMax
  /\ SchemaRequiredString(doc.message, MessageMin, MessageMax)
  /\ doc.rating >= RatingMin /\ doc.rating <= RatingMax
  /\ doc.priority \in Priorities

\* the keywords of the six tagging rules
BugWords == { <<"b","u","g">>, <<"e","r","r","o","r">>, <<"i","s","s","u","e">> }
FeatureWords == { <<"f","e","a","t","u","r","e">>,
                  <<"s","u","g","g","e","s","t","i","o","n">>,
                  <<"i","m","p","r","o","v","e">> }
MobileWords == { <<"a","p","p">>, <<"m","o","b","i","l","e">> }
HardwareWords == { <<"d","e","v","i","c","e">>, <<"e","s","p","3","2">>,
                   <<"h","a","r","d","w","a","r","e">> }
PositiveWords == { <<"g","r","e","a","t">>, <<"a","w","e","s","o","m","e">>,
                   <<"l","o","v","e">> }
NegativeWords == { <<"p","r","o","b","l","e","m">>,
                   <<"d","i","f","f","i","c","u","l","t">>, <<"h","a","t","e">> }

IncludesAny(m, words) == \E w \in words : Includes(m, w)

\* the tags the rules push
BugReportTag == <<"b","u","g","-","r","e","p","o","r","t">>
FeatureRequestTag == <<"f","e","a","t","u","r","e","-","r","e","q","u","e","s","t">>
MobileAppTag == <<"m","o","b","i","l","e","-","a","p","p">>
HardwareTag == <<"h","a","r","d","w","a","r","e">>
PositiveTag == <<"p","o","s","i","t","i","v","e">>
NegativeTag == <<"n","e","g","a","t","i","v","e">>

\* AutoTags with the rules chained by else: the first matching rule only
AutoTagsFirstMatch(m) ==
  IF IncludesAny(m, BugWords) THEN <<BugReportTag>>
  ELSE IF IncludesAny(m, FeatureWords) THEN <<FeatureRequestTag>>
  ELSE IF IncludesAny(m, MobileWords) THEN <<MobileAppTag>>
  ELSE IF IncludesAny(m, HardwareWords) THEN <<HardwareTag>>
  ELSE IF IncludesAny(m, PositiveWords) THEN <<PositiveTag>>
  ELSE IF IncludesAny(m, NegativeWords) THEN <<NegativeTag>>
  ELSE <<>>

\* autoTags, in the order the rules push them
AutoTags(m) ==
  (IF IncludesAny(m, BugWords) THEN <<BugReportTag>> ELSE <<>>)
  \o (IF IncludesAny(m, FeatureWords) THEN <<FeatureRequestTag>> ELSE <<>>)
  \o (IF IncludesAny(m, MobileWords) THEN <<MobileAppTag>> ELSE <<>>)
  \o (IF IncludesAny(m, HardwareWords) THEN <<HardwareTag>> ELSE <<>>)
  \o (IF IncludesAny(m, PositiveWords) THEN <<PositiveTag>> ELSE <<>>)
  \o (IF IncludesAny(m, NegativeWords) THEN <<NegativeTag>> ELSE <<>>)

\* [...new Set(xs)]: the first occurrence of every element, in order
Dedup(xs) ==
  LET keep == {i \in DOMAIN xs : \A j \in 1..(i - 1) : xs[j] # xs[i]}
      F[i \in 0..Len(xs)] ==
        IF i = 0 THEN <<>>
        ELSE IF i \in keep THEN Append(F[i - 1], xs[i]) ELSE F[i - 1]
  IN F[Len(xs)]

\* the pre('save') hook on a new document
PreSave(doc) ==
  IF doc.message # <<>>
  THEN LET m == ToLowerCase(doc.message)
       IN [doc EXCEPT
             !.priority = IF IncludesAny(m, BugWords) \/ IncludesAny(m, NegativeWords)
                          THEN "high" ELSE @,
             !.tags = Dedup(@ \o AutoTags(m))]
  ELSE doc


(***************************************************************************)
(* Identifiers, time, configuration.                                       *)
(***************************************************************************)
DigitSeq == <<"0","1","2","3","4","5","6","7","8","9">>
HexChars == Digits \cup {"a","b","c","d","e","f","A","B","C","D","E","F"}
ObjectIdLen == 24

\* the n-th ObjectId the store hands out (n < 100)
ObjectIdOf(n) ==
  Str(ObjectIdLen - 2, "0") \o <<DigitSeq[(n \div 10) + 1], DigitSeq[(n % 10) + 1]>>

\* the cast of a string to an ObjectId succeeds on 24 hex characters
IsObjectId(s) == Len(s) = ObjectIdLen /\ \A c \in Range(s) : c \in HexChars

MalformedId == <<"n","o","t","-","a","n","-","i","d">>

MsPerMinute == 60000
\* 60 * 60 * 1000
OneHourMs == 60 * 60 * 1000

\* process.env.ADMIN_KEY, set as the deployment guide prescribes
ADMIN_KEY == "local-admin-key"

(***************************************************************************)
(* Request inputs.                                                         *)
(***************************************************************************)
NameOk == <<"A","l">>
NameShort == <<"A">>
EmailLower == <<"a","@","b",".","c","o">>
EmailUpper == <<"A","@","B",".","c","o">>
EmailOther == <<"b","@","b",".","c","o">>
EmailBad == <<"a","b">>
EmailLongTld == <<"a","@","b",".","e","m","a","i","l">>
Contact9 == Str(ContactMin - 1, "5")
Contact10 == Str(ContactMin, "5")
Contact20 == Str(ContactMax, "5")
Contact21 == Str(ContactMax + 1, "5")
MsgBug == <<"B","u","g"," ","i","n"," ","a","p","p">>
MsgPlain == <<"n","i","c","e"," ","t","h","i","n","g">>
MsgShort == <<"t","o","o"," ","s","h","o","r","t">>

BaseBody == [name |-> NameOk, email |-> EmailLower,
             contactNumber |-> Contact10, message |-> MsgBug]
OtherBody == [name |-> NameOk, email |-> EmailOther,
              contactNumber |-> Contact20, message |-> MsgPlain]

Without(b, k) == [x \in DOMAIN b \ {k} |-> b[x]]
With(b, k, v) == [x \in DOMAIN b \cup {k} |-> IF x = k THEN v ELSE b[x]]

\* the request bodies the model submits
Bodies ==
  { BaseBody,
    OtherBody,
    With(BaseBody, "email", EmailUpper),
    With(BaseBody, "email", EmailLongTld),
    With(BaseBody, "email", EmailBad),
    With(BaseBody, "name", NameShort),
    With(BaseBody, "name", <<>>),
    Without(BaseBody, "name"),
    With(BaseBody, "message", MsgShort),
    With(BaseBody, "contactNumber", Contact9),
    With(OtherBody, "contactNumber", Contact21),
    Without(OtherBody, "contactNumber"),
    With(OtherBody, "rating", 4),
    With(With(BaseBody, "name", NameShort), "email", EmailBad),
    With(With(With(BaseBody, "name", NameShort), "contactNumber", Contact9),
         "message", MsgShort),
    With(With(BaseBody, "message", MsgShort), "rating", 4) }

ClientIp == "203.0.113.7"
ClientAgent == "Mozilla/5.0"

(***************************************************************************)
(* State.                                                                  *)
(***************************************************************************)
VARIABLES
  store,     \* the feedbacks collection, in insertion order
  now,       \* Date.now(), in milliseconds
  nextId,    \* the number of the next ObjectId
  edits,     \* number of updates made outside the API
  lastReq,   \* the request handled by the last step
  lastResp,  \* its response
  inflight   \* the handlers suspended at an await, by request number
vars == <<store, now, nextId, edits, lastReq, lastResp, inflight>>

NoReq == [op |-> "none"]
NoResp == [status |-> 0]

Init ==
  /\ store = <<>>
  /\ now = 0
  /\ nextId = 1
  /\ edits = 0
  /\ lastReq = NoReq
  /\ lastResp = NoResp
  /\ inflight = <<>>

\* the exchange in hand ends
Finish ==
  /\ lastReq # NoReq
  /\ lastReq' = NoReq
  /\ lastResp' = NoResp
  /\ UNCHANGED <<store, now, nextId, edits, inflight>>

\* time passes between requests
Tick ==
  /\ lastReq = NoReq
  /\ now < MaxTicks * TickMinutes * MsPerMinute
  /\ now' = now + TickMinutes * MsPerMinute
  /\ UNCHANGED <<store, nextId, edits, lastReq, lastResp, inflight>>

(***************************************************************************)
(* POST /api/feedback                                                      *)
(***************************************************************************)
\* FindRecent with $gt in place of $gte
FindRecentStrict(docs, email, oneHourAgo) ==
  {i \in DOMAIN docs : docs[i].email = email /\ docs[i].createdAt > oneHourAgo}

\* Feedback.findOne({email, createdAt: {$gte: oneHourAgo}})
FindRecent(docs, email, oneHourAgo) ==
  {i \in DOMAIN docs : docs[i].email = email /\ docs[i].createdAt >= oneHourAgo}

\* the document feedback.save() inserts: pre-save hook, _id, timestamps
Saved(doc, id, t) ==
  LET d == PreSave(doc)
  IN [_id |-> id, name |-> d.name, email |-> d.email,
      contactNumber |-> d.contactNumber, message |-> d.message,
      rating |-> d.rating, status |-> d.status, ipAddress |-> d.ipAddress,
      userAgent |-> d.userAgent, isPublic |-> d.isPublic,
      priority |-> d.priority, tags |-> d.tags,
      createdAt |-> t, updatedAt |-> t, __v |-> 0]

ValidationResp(details) ==
  [status |-> 400, success |-> FALSE, error |-> "Validation Error",
   message |-> details[1], details |-> details]

DuplicateResp ==
  [status |-> 429, success |-> FALSE, error |-> "Duplicate Submission",
   message |-> "You have already submitted feedback recently. Please wait before submitting again."]

ServerErrorResp(msg) ==
  [status |-> 500, success |-> FALSE, error |-> "Server Error", message |-> msg]

CreatedResp(fb) ==
  [status |-> 201, success |-> TRUE,
   message |-> "Thank you for your feedback! We appreciate your input and will review it soon.",
   data |-> [id |-> fb._id, name |-> fb.name, message |-> fb.message,
             submittedAt |-> fb.createdAt, status |-> fb.status]]

\* SubmitOutcome with the duplicate guard ahead of the validation
SubmitOutcomeGuardFirst(docs, t, id, body, ip, ua) ==
  LET details == JoiDetails(body)
      doc == NewFeedback(body, ip, ua)
      fb == Saved(doc, id, t)
  IN IF Has(body, "email")
        /\ FindRecent(docs, ToLowerCase(body.email), t - OneHourMs) # {}
     THEN [resp |-> DuplicateResp, store |-> docs]
     ELSE IF details # <<>>
     THEN [resp |-> ValidationResp(details), store |-> docs]
     ELSE IF ~SchemaValid(doc)
     THEN [resp |-> ServerErrorResp("Failed to submit feedback. Please try again later."),
           store |-> docs]
     ELSE [resp |-> CreatedResp(fb), store |-> Append(docs, fb)]

\* the outcome of the handler: the response and the store after it
SubmitOutcome(docs, t, id, body, ip, ua) ==
  LET details == JoiDetails(body)
      doc == NewFeedback(body, ip, ua)
      fb == Saved(doc, id, t)
  IN IF details # <<>>
     THEN [resp |-> ValidationResp(details), store |-> docs]
     ELSE IF FindRecent(docs, ToLowerCase(body.email), t - OneHourMs) # {}
     THEN [resp |-> DuplicateResp, store |-> docs]
     ELSE IF ~SchemaValid(doc)
     THEN [resp |-> ServerErrorResp("Failed to submit feedback. Please try again later."),
           store |-> docs]
     ELSE [resp |-> CreatedResp(fb), store |-> Append(docs, fb)]

Submit(body) ==
  LET out == SubmitOutcome(store, now, ObjectIdOf(nextId), body, ClientIp, ClientAgent)
  IN /\ lastReq = NoReq
     /\ out.store # store => nextId <= MaxRecords
     /\ store' = out.store
     /\ nextId' = IF out.store # store THEN nextId + 1 ELSE nextId
     /\ lastReq' = [op |-> "submit", body |-> body]
     /\ lastResp' = out.resp
     /\ UNCHANGED <<now, edits, inflight>>

(***************************************************************************)
(* Updates made outside this API (the admin workflow edits documents in    *)
(* the collection directly): a path of the schema takes another of the     *)
(* values its enum or type allows.                                         *)
(***************************************************************************)
Statuses == {"new", "read", "responded", "archived"}
MaxEdits == 1

AdminEdit ==
  /\ lastReq = NoReq
  /\ edits < MaxEdits
  /\ \E i \in DOMAIN store :
       \/ \E st \in Statuses \ {store[i].status} :
            store' = [store EXCEPT ![i].status = st]
       \/ store' = [store EXCEPT ![i].isPublic = ~@]
  /\ edits' = edits + 1
  /\ UNCHANGED <<now, nextId, lastReq, lastResp, inflight>>

(***************************************************************************)
(* Serialisation of a document (toJSON with virtuals).                     *)
(***************************************************************************)
\* the timeAgo virtual; the text is held as <<number, wording>>
TimeAgo(createdAt, t) ==
  LET diffMins == (t - createdAt) \div MsPerMinute
      diffHours == diffMins \div 60
      diffDays == diffHours \div 24
  IN IF diffMins < 1 THEN <<0, "Just now">>
     ELSE IF diffMins < 60
     THEN <<diffMins, IF diffMins = 1 THEN "minute ago" ELSE "minutes ago">>
     ELSE IF diffHours < 24
     THEN <<diffHours, IF diffHours = 1 THEN "hour ago" ELSE "hours ago">>
     ELSE IF diffDays < 7
     THEN <<diffDays, IF diffDays = 1 THEN "day ago" ELSE "days ago">>
     ELSE <<createdAt, "toLocaleDateString">>

\* the formattedDate virtual
FormattedDate(createdAt) == <<createdAt, "toLocaleDateString en-US long">>

StoredPaths == {"_id", "name", "email", "contactNumber", "message", "rating",
                "status", "ipAddress", "userAgent", "isPublic", "priority",
                "tags", "createdAt", "updatedAt", "__v"}

\* the JSON of a document loaded with the stored paths `paths`: the loaded
\* paths that are set, and the virtuals that have a value (id needs _id,
\* formattedDate and timeAgo are computed from createdAt)
ToJSON(doc, paths, t) ==
  LET loaded == (paths \ {"contactNumber"})
                  \cup (IF "contactNumber" \in paths /\ IsSet(doc.contactNumber)
                        THEN {"contactNumber"} ELSE {})
      virtuals == (IF "_id" \in paths THEN {"id"} ELSE {})
                    \cup (IF "createdAt" \in paths
                          THEN {"formattedDate", "timeAgo"} ELSE {})
  IN [f \in loaded \cup virtuals |->
        CASE f = "id" -> doc._id
          [] f = "formattedDate" -> FormattedDate(doc.createdAt)
          [] f = "timeAgo" -> TimeAgo(doc.createdAt, t)
          [] f = "contactNumber" -> Val(doc.contactNumber)
          [] OTHER -> doc[f]]

\* AdminPaths without the exclusions
AdminPathsAll == StoredPaths

\* select('-ipAddress -userAgent')
AdminPaths == StoredPaths \ {"ipAddress", "userAgent"}
\* select('name message createdAt formattedDate timeAgo tags priority -_id')
PublicListPaths == {"name", "message", "createdAt", "tags", "priority"}
\* select('name message createdAt formattedDate timeAgo tags priority')
RecentPaths == {"_id", "name", "message", "createdAt", "tags", "priority"}

(***************************************************************************)
(* GET /api/feedback/:id                                                   *)
(***************************************************************************)
NotFoundResp ==
  [status |-> 404, success |-> FALSE, error |-> "Not Found",
   message |-> "Feedback not found"]

\* Feedback.findById(id)
FindById(docs, id) == {i \in DOMAIN docs : docs[i]._id = id}

\* GetByIdResponse answering 403 for a record it hides
GetByIdResponseForbidden(docs, t, id) ==
  IF ~IsObjectId(id)
  THEN ServerErrorResp("Failed to fetch feedback")
  ELSE IF FindById(docs, id) = {}
  THEN NotFoundResp
  ELSE LET feedback == docs[CHOOSE i \in FindById(docs, id) : TRUE]
       IN IF ~feedback.isPublic \/ feedback.status = "archived"
          THEN [status |-> 403, success |-> FALSE, error |-> "Forbidden",
                message |-> "Feedback is not public"]
          ELSE [status |-> 200, success |-> TRUE,
                data |-> ToJSON(feedback, AdminPaths, t)]

GetByIdResponse(docs, t, id) ==
  IF ~IsObjectId(id)
  THEN ServerErrorResp("Failed to fetch feedback")
  ELSE IF FindById(docs, id) = {}
  THEN NotFoundResp
  ELSE LET feedback == docs[CHOOSE i \in FindById(docs, id) : TRUE]
       IN IF ~feedback.isPublic \/ feedback.status = "archived"
          THEN NotFoundResp
          ELSE [status |-> 200, success |-> TRUE,
                data |-> ToJSON(feedback, AdminPaths, t)]

IdParams == {ObjectIdOf(n) : n \in 1..(MaxRecords + 1)} \cup {MalformedId}

GetById(id) ==
  /\ lastReq = NoReq
  /\ lastReq' = [op |-> "getById", id |-> id]
  /\ lastResp' = GetByIdResponse(store, now, id)
  /\ UNCHANGED <<store, now, nextId, edits, inflight>>

(***************************************************************************)
(* DELETE /api/feedback/:id                                                *)
(***************************************************************************)
UnauthorizedResp ==
  [status |-> 401, success |-> FALSE, error |-> "Unauthorized",
   message |-> "Admin access required"]

DeletedResp ==
  [status |-> 200, success |-> TRUE, message |-> "Feedback deleted successfully"]

\* the header name the clients of this repository send, and its lower case
AdminKeyName == <<"a","d","m","i","n","K","e","y">>
AdminKeyNameLower == <<"a","d","m","i","n","k","e","y">>

\* req.headers: Node's http parser lower-cases the header names.
\* `sent` is <<>> or <<name, value>>
IncomingHeaders(sent) ==
  IF sent = <<>> THEN [n \in {} |-> ""]
  ELSE [n \in {ToLowerCase(sent[1])} |-> sent[2]]

\* const { adminKey } = req.headers: the property named exactly adminKey
HeaderAdminKey(sent) ==
  LET headers == IncomingHeaders(sent)
  IN IF AdminKeyName \in DOMAIN headers THEN <<headers[AdminKeyName]>> ELSE <<>>

\* KeyMismatch with the comparison inverted
KeyMismatchInverted(adminKey) == adminKey = <<ADMIN_KEY>>

\* adminKey !== process.env.ADMIN_KEY
KeyMismatch(adminKey) == adminKey # <<ADMIN_KEY>>

RemoveAt(docs, i) == SubSeq(docs, 1, i - 1) \o SubSeq(docs, i + 1, Len(docs))

DeleteOutcome(docs, id, sent) ==
  IF KeyMismatch(HeaderAdminKey(sent))
  THEN [resp |-> UnauthorizedResp, store |-> docs]
  ELSE IF ~IsObjectId(id)
  THEN [resp |-> ServerErrorResp("Failed to delete feedback"), store |-> docs]
  ELSE IF FindById(docs, id) = {}
  THEN [resp |-> NotFoundResp, store |-> docs]
  ELSE [resp |-> DeletedResp,
        store |-> RemoveAt(docs, CHOOSE i \in FindById(docs, id) : TRUE)]

SentHeaders ==
  { <<>>, <<AdminKeyName, ADMIN_KEY>>, <<AdminKeyNameLower, ADMIN_KEY>>,
    <<AdminKeyName, "wrong-key">> }

Delete(id, sent) ==
  LET out == DeleteOutcome(store, id, sent)
  IN /\ lastReq = NoReq
     /\ store' = out.store
     /\ lastReq' = [op |-> "delete", id |-> id, sent |-> sent]
     /\ lastResp' = out.resp
     /\ UNCHANGED <<now, nextId, edits, inflight>>

(***************************************************************************)
(* GET /api/feedback                                                       *)
(***************************************************************************)
\* the filter object, built in the order of the handler's statements;
\* a path holds <<>> (no condition), <<"eq", v>> or <<"ne", v>>
EmptyQuery == [isPublic |-> <<>>, status |-> <<>>, priority |-> <<>>]

\* req.query defaults: publicOnly = 'true'
PublicOnlyOf(q) == IF q.publicOnly = <<>> THEN "true" ELSE q.publicOnly[1]

BuildQuery(q) ==
  LET q1 == IF PublicOnlyOf(q) = "true"
            THEN [EmptyQuery EXCEPT !.isPublic = <<"eq", TRUE>>,
                                    !.status = <<"ne", "archived">>]
            ELSE EmptyQuery
      q2 == IF q.status # <<>> THEN [q1 EXCEPT !.status = <<"eq", q.status[1]>>]
            ELSE q1
  IN IF q.priority # <<>> THEN [q2 EXCEPT !.priority = <<"eq", q.priority[1]>>]
     ELSE q2

Holds(cond, v) ==
  \/ cond = <<>>
  \/ cond[1] = "eq" /\ v = cond[2]
  \/ cond[1] = "ne" /\ v # cond[2]

Matches(doc, query) ==
  /\ Holds(query.isPublic, doc.isPublic)
  /\ Holds(query.status, doc.status)
  /\ Holds(query.priority, doc.priority)

\* the indexes of the documents a find(query) selects
Find(docs, query) == {i \in DOMAIN docs : Matches(docs[i], query)}

\* sort({createdAt: -1}): every order of the selected documents that is
\* descending in createdAt (the store fixes no order among equal keys)
SortedOrders(docs, idx) ==
  {p \in [1..Cardinality(idx) -> idx] :
     /\ \A i, j \in DOMAIN p : i # j => p[i] # p[j]
     /\ \A i, j \in DOMAIN p : i < j => docs[p[i]].createdAt >= docs[p[j]].createdAt}

Min(a, b) == IF a <= b THEN a ELSE b

\* Page with the skip left out
PageNoSkip(order, skip, limit) == SubSeq(order, 1, Min(limit, Len(order)))

\* skip(n).limit(m) on a sorted order
Page(order, skip, limit) == SubSeq(order, skip + 1, Min(skip + limit, Len(order)))

\* Math.ceil(a / b) for b > 0
CeilDiv(a, b) == (a + b - 1) \div b

ListResponse(docs, t, q, order) ==
  LET publicOnly == PublicOnlyOf(q)
      query == BuildQuery(q)
      skip == (q.page - 1) * q.limit
      paths == IF publicOnly = "true" THEN PublicListPaths ELSE AdminPaths
      page == Page(order, skip, q.limit)
      total == Cardinality(Find(docs, query))
      totalPages == CeilDiv(total, q.limit)
  IN [status |-> 200, success |-> TRUE,
      data |-> [i \in DOMAIN page |-> ToJSON(docs[page[i]], paths, t)],
      pagination |-> [currentPage |-> q.page, totalPages |-> totalPages,
                      totalItems |-> total, itemsPerPage |-> q.limit,
                      hasNextPage |-> q.page < totalPages,
                      hasPrevPage |-> q.page > 1]]

MaxPage == 2
MaxLimit == 2

\* the filters the model's list requests carry: status, priority, publicOnly
ListFilters ==
  { <<<<>>, <<>>, <<>>>>,
    <<<<>>, <<>>, <<"true">>>>,
    <<<<"archived">>, <<>>, <<"true">>>>,
    <<<<"new">>, <<"high">>, <<"true">>>>,
    <<<<>>, <<>>, <<"false">>>>,
    <<<<"archived">>, <<"high">>, <<"false">>>> }

ListRequests ==
  { [page |-> p, limit |-> l, status |-> f[1], priority |-> f[2],
     publicOnly |-> f[3]] : p \in 1..MaxPage, l \in 1..MaxLimit, f \in ListFilters }

List(q) ==
  /\ lastReq = NoReq
  /\ \E order \in SortedOrders(store, Find(store, BuildQuery(q))) :
       lastResp' = ListResponse(store, now, q, order)
  /\ lastReq' = [op |-> "list", query |-> q]
  /\ UNCHANGED <<store, now, nextId, edits, inflight>>

(***************************************************************************)
(* GET /api/feedback/recent                                                *)
(***************************************************************************)
\* Feedback.getPublicFeedback(limit)
PublicFeedbackQuery ==
  [EmptyQuery EXCEPT !.isPublic = <<"eq", TRUE>>, !.status = <<"ne", "archived">>]

RecentResponse(docs, t, limit, order) ==
  LET page == Page(order, 0, limit)
  IN [status |-> 200, success |-> TRUE,
      data |-> [i \in DOMAIN page |-> ToJSON(docs[page[i]], RecentPaths, t)],
      count |-> Len(page)]

Recent(limit) ==
  /\ lastReq = NoReq
  /\ \E order \in SortedOrders(store, Find(store, PublicFeedbackQuery)) :
       lastResp' = RecentResponse(store, now, limit, order)
  /\ lastReq' = [op |-> "recent", limit |-> limit]
  /\ UNCHANGED <<store, now, nextId, edits, inflight>>

(***************************************************************************)
(* GET /api/feedback/stats                                                 *)
(***************************************************************************)
RECURSIVE SumRatings(_)
SumRatings(docs) ==
  IF docs = <<>> THEN 0 ELSE Head(docs).rating + SumRatings(Tail(docs))

\* Math.round of the quotient a / b: the nearest integer, halves upwards
\* (the halves that the collections of the model produce are exact doubles)
RoundDiv(a, b) == (2 * a + b) \div (2 * b)

Count(docs, P(_)) == Cardinality({i \in DOMAIN docs : P(docs[i])})

\* the significand of a double has 53 bits
DoubleBits == 53

RECURSIVE BitLength(_)
BitLength(n) == IF n = 0 THEN 0 ELSE 1 + BitLength(n \div 2)

\* k further bits of the binary quotient, from the remainder r of a division
\* by b: <<the remainder left, the last bit>>
RECURSIVE DivBits(_, _, _, _)
DivBits(r, b, k, last) ==
  IF k = 0 THEN <<r, last>>
  ELSE IF 2 * r >= b THEN DivBits(2 * r - b, b, k - 1, 1)
  ELSE DivBits(2 * r, b, k - 1, 0)

\* the double a / b (a >= b >= 1, round to nearest, ties to even) compared
\* with the exact quotient: -1 below it, 0 equal, 1 above it
DoubleError(a, b) ==
  LET whole == a \div b
      res == DivBits(a % b, b, DoubleBits - BitLength(whole), whole % 2)
  IN IF res[1] = 0 THEN 0
     ELSE IF 2 * res[1] < b THEN -1
     ELSE IF 2 * res[1] > b THEN 1
     ELSE IF res[2] = 0 THEN -1 ELSE 1

\* Number((a / b).toFixed(1)) in tenths, for the double a / b: toFixed takes
\* the tenth nearest to the double, the larger one when the double lies
\* midway.  A quotient that is not midway between two tenths is at least
\* 1 / (20 * b) away from the midpoint, far more than the error of the
\* double, so only an exact midpoint is decided by the double's error.
ToFixed1(a, b) ==
  LET n == (10 * a) \div b
      rem == (10 * a) % b
  IN IF 2 * rem < b THEN n
     ELSE IF 2 * rem > b THEN n + 1
     ELSE IF DoubleError(a, b) < 0 THEN n ELSE n + 1

FallbackAverageTenths == 48
FallbackSatisfaction == 97

IsNew(d) == d.status = "new"
IsRead(d) == d.status = "read"
IsResponded(d) == d.status = "responded"
IsHigh(d) == d.priority = "high"
IsUrgent(d) == d.priority = "urgent"
\* IsHighRating with > in place of >=
IsHighRatingStrict(d) == d.rating > 4

IsHighRating(d) == d.rating >= 4

\* the seven queries of the Promise.all, by position: six countDocuments
\* and the aggregate, whose result is <<>> on an empty collection and one
\* group <<sum of the ratings, number of documents>> otherwise
StatsQueries == 1..7

StatsQuery(k, docs) ==
  CASE k = 1 -> Len(docs)
    [] k = 2 -> Count(docs, IsNew)
    [] k = 3 -> Count(docs, IsRead)
    [] k = 4 -> Count(docs, IsResponded)
    [] k = 5 -> Count(docs, IsHigh)
    [] k = 6 -> Count(docs, IsUrgent)
    [] k = 7 -> IF docs = <<>> THEN <<>> ELSE <<SumRatings(docs), Len(docs)>>

\* countDocuments({ rating: { $gte: 4 } })
HighRatingCount(docs) == Count(docs, IsHighRating)

\* the object getStats returns from the results of its queries;
\* averageRating is held in tenths
StatsResult(results, highRatingCount) ==
  LET total == results[1]
      ratingStats == results[7]
  IN [total |-> total,
      new |-> results[2],
      read |-> results[3],
      responded |-> results[4],
      highPriority |-> results[5],
      urgent |-> results[6],
      averageRating |-> IF ratingStats # <<>> /\ ratingStats[1] > 0
                        THEN ToFixed1(ratingStats[1], ratingStats[2])
                        ELSE FallbackAverageTenths,
      satisfactionPercentage |-> IF total > 0
                                 THEN RoundDiv(100 * highRatingCount, total)
                                 ELSE FallbackSatisfaction,
      highRatingCount |-> highRatingCount]

\* Feedback.getStats() with all its queries on one state of the collection
GetStats(docs) ==
  StatsResult([k \in StatsQueries |-> StatsQuery(k, docs)], HighRatingCount(docs))

StatsResponse(docs, t) ==
  [status |-> 200, success |-> TRUE, data |-> GetStats(docs), lastUpdated |-> t]

Stats ==
  /\ lastReq = NoReq
  /\ lastReq' = [op |-> "stats"]
  /\ lastResp' = StatsResponse(store, now)
  /\ UNCHANGED <<store, now, nextId, edits, inflight>>

Next ==
  \/ Finish
  \/ Tick
  \/ AdminEdit
  \/ \E b \in Bodies : Submit(b)
  \/ \E q \in ListRequests : List(q)
  \/ \E limit \in 1..MaxLimit : Recent(limit)
  \/ Stats
  \/ \E id \in IdParams : GetById(id)
  \/ \E id \in IdParams, sent \in SentHeaders : Delete(id, sent)

Spec == Init /\ [][Next]_vars

\* the document stored for `body` at time t under the n-th id, with the
\* status and visibility it has now
StoredDoc(n, body, t, status, isPublic) ==
  [Saved(NewFeedback(body, ClientIp, ClientAgent), ObjectIdOf(n), t)
     EXCEPT !.status = status, !.isPublic = isPublic]

(***************************************************************************)
(* Creation of one document: new Feedback(data) and save(), for data whose *)
(* message holds the keywords of any subset of the six tagging rules.      *)
(***************************************************************************)
\* keywords of the six rules as a message may spell them: three spellings
\* per rule
Spellings ==
  <<<<<<"B","u","g">>, <<"e","r","r","o","r">>, <<"I","S","S","U","E">>>>,
     <<<<"F","e","a","t","u","r","e">>, <<"s","u","g","g","e","s","t","i","o","n">>, <<"I","M","P","R","O","V","E">>>>,
     <<<<"A","p","p">>, <<"m","o","b","i","l","e">>, <<"M","O","B","I","L","E">>>>,
     <<<<"D","e","v","i","c","e">>, <<"e","s","p","3","2">>, <<"H","A","R","D","W","A","R","E">>>>,
     <<<<"G","r","e","a","t">>, <<"a","w","e","s","o","m","e">>, <<"L","O","V","E">>>>,
     <<<<"P","r","o","b","l","e","m">>, <<"d","i","f","f","i","c","u","l","t">>, <<"H","A","T","E">>>>>>

MsgPrefix == <<"F","e","e","d","b","a","c","k",":"," ">>

\* the message that holds, after the prefix, the k-th spelling of a keyword
\* of every rule in `rules`, separated by spaces
RECURSIVE KeywordText(_, _, _)
KeywordText(rules, k, r) ==
  IF r > Len(Spellings) THEN <<>>
  ELSE (IF r \in rules THEN <<" ">> \o Spellings[r][k] ELSE <<>>)
         \o KeywordText(rules, k, r + 1)

KeywordMessages ==
  { MsgPrefix \o KeywordText(rules, k, 1) :
      rules \in SUBSET (1..Len(Spellings)), k \in 1..3 }

\* caller-supplied tags: one that a rule also pushes, spelt differently,
\* and one repeated
CallerTags == << <<" ","P","o","s","i","t","i","v","e">>, <<"v","i","p">>,
                 <<"v","i","p">> >>

\* what the data sets beyond the four text fields
CreateExtras ==
  { [x \in {} |-> <<>>],
    [priority |-> "urgent"],
    [priority |-> "low", tags |-> CallerTags] }

CreateData ==
  { [k \in DOMAIN BaseBody \cup DOMAIN x |->
       IF k = "message" THEN m ELSE IF k \in DOMAIN x THEN x[k] ELSE BaseBody[k]] :
      m \in KeywordMessages \cup {MsgShort}, x \in CreateExtras }

\* new Feedback(data).save(): validation, pre-save hook, insert
CreateOutcome(docs, t, id, data) ==
  LET doc == NewFeedback(data, ClientIp, ClientAgent)
  IN IF ~SchemaValid(doc)
     THEN [resp |-> [status |-> "rejected", name |-> "ValidationError"],
           store |-> docs]
     ELSE [resp |-> [status |-> "resolved", id |-> id],
           store |-> Append(docs, Saved(doc, id, t))]

Create ==
  LET out == CreateOutcome(store, now, ObjectIdOf(nextId), lastReq.data)
  IN /\ lastReq.op = "create"
     /\ lastResp = NoResp
     /\ store' = out.store
     /\ nextId' = IF out.store # store THEN nextId + 1 ELSE nextId
     /\ lastResp' = out.resp
     /\ UNCHANGED <<now, edits, lastReq, inflight>>

SaveInit ==
  /\ store = <<>>
  /\ now = 0
  /\ nextId = 1
  /\ edits = 0
  /\ lastReq \in { [op |-> "create", data |-> d] : d \in CreateData }
  /\ lastResp = NoResp
  /\ inflight = <<>>

SaveNext == Create

SaveSpec == SaveInit /\ [][SaveNext]_vars

(***************************************************************************)
(* The stats handler over collections of up to MaxCounted documents with   *)
(* the ratings, statuses and priorities the schema allows.                 *)
(***************************************************************************)
MaxCounted == 29
MaxLowRated == 5

\* the ratings of a collection: the higher ones first
RatingsOf(n5, n4, n3, n2, n1) ==
  Str(n5, 5) \o Str(n4, 4) \o Str(n3, 3) \o Str(n2, 2) \o Str(n1, 1)

\* up to MaxCounted ratings of 3 to 5, and up to MaxLowRated ratings of 1 to 5
CountedRatings ==
  { RatingsOf(c[1], c[2], c[3], 0, 0) :
      c \in {x \in (0..MaxCounted) \X (0..MaxCounted) \X (0..MaxCounted) :
               x[1] + x[2] + x[3] <= MaxCounted} }
  \cup
  { RatingsOf(c[1], c[2], c[3], c[4], c[5]) :
      c \in {x \in [1..5 -> 0..MaxLowRated] :
               x[1] + x[2] + x[3] + x[4] + x[5] <= MaxLowRated} }

StatusCycle == <<"new", "read", "responded", "archived">>
PriorityCycle == <<"medium", "high", "low", "urgent">>

\* the collection with the ratings rs; statuses and priorities go through
\* their values from the offset a on
CountedStore(rs, a) ==
  [i \in DOMAIN rs |->
     [StoredDoc(i, BaseBody, 0, StatusCycle[((i + a) % 4) + 1], TRUE)
        EXCEPT !.rating = rs[i],
               !.priority = PriorityCycle[(((i \div 2) + a) % 4) + 1]]]

StatsInit ==
  /\ store \in { CountedStore(rs, a) : rs \in CountedRatings, a \in 0..1 }
  /\ now = 0
  /\ nextId = Len(store) + 1
  /\ edits = 0
  /\ lastReq = NoReq
  /\ lastResp = NoResp
  /\ inflight = <<>>

StatsNext ==
  \/ Finish
  \/ Stats

StatsSpec == StatsInit /\ [][StatsNext]_vars

(***************************************************************************)
(* The list handler over collections of up to MaxListed documents.  A      *)
(* document of the collection is an accepted submission that the admin     *)
(* workflow may have edited; the documents are in insertion order, so      *)
(* their creation times do not decrease.                                   *)
(***************************************************************************)
MaxListed == 3

\* <<body, status, isPublic>> of the documents of the collections
ListedShapes ==
  { <<BaseBody, "new", TRUE>>, <<OtherBody, "new", TRUE>>,
    <<BaseBody, "archived", TRUE>>, <<OtherBody, "read", FALSE>> }

ListedTimes == {0, TickMinutes * MsPerMinute}

ListedStores ==
  UNION { { [i \in 1..n |-> StoredDoc(i, sh[i][1], ts[i], sh[i][2], sh[i][3])] :
              sh \in [1..n -> ListedShapes],
              ts \in {f \in [1..n -> ListedTimes] :
                        \A i, j \in 1..n : i < j => f[i] <= f[j]} } :
          n \in 0..MaxListed }

ListInit ==
  /\ store \in ListedStores
  /\ now = TickMinutes * MsPerMinute
  /\ nextId = Len(store) + 1
  /\ edits = 0
  /\ lastReq = NoReq
  /\ lastResp = NoResp
  /\ inflight = <<>>

ListNext ==
  \/ Finish
  \/ \E q \in ListRequests : List(q)

ListSpec == ListInit /\ [][ListNext]_vars


(***************************************************************************)
(* Concurrent requests.  A handler is suspended at each await; what it     *)
(* awaits is an operation that the store carries out in one step, and the  *)
(* handler runs on to its next await, or to its response, when the result  *)
(* arrives.  Up to MaxSubmitters submit handlers and one stats handler are *)
(* in progress at a time; inflight maps a handler to where it stands.      *)
(***************************************************************************)
MaxSubmitters == 2

Submitters == 1..MaxSubmitters
StatsHandler == 0
Handlers == Submitters \cup {StatsHandler}

Idle == [pc |-> "idle"]

\* the bodies of the concurrent submits: one address in two spellings, and
\* a body that fails validation
ConcBodies ==
  { BaseBody, With(BaseBody, "email", EmailUpper), With(BaseBody, "name", NameShort) }

\* the records that the handlers in progress may still create
Creating == {h \in Submitters : inflight[h].pc \in {"findOne", "save"}}

\* POST /api/feedback up to `await Feedback.findOne(...)`
SubmitBegin(h, body) ==
  LET details == JoiDetails(body)
  IN /\ lastReq = NoReq
     /\ inflight[h] = Idle
     /\ Len(store) + Cardinality(Creating) < MaxRecords
     /\ IF details # <<>>
        THEN /\ lastReq' = [op |-> "submit", body |-> body]
             /\ lastResp' = ValidationResp(details)
             /\ UNCHANGED inflight
        ELSE /\ inflight' = [inflight EXCEPT ![h] =
                               [pc |-> "findOne", body |-> body,
                                email |-> ToLowerCase(body.email),
                                oneHourAgo |-> now - OneHourMs]]
             /\ UNCHANGED <<lastReq, lastResp>>
     /\ UNCHANGED <<store, now, nextId, edits>>

\* the store answers the findOne; the handler answers 429, or constructs
\* the document and runs on to `await feedback.save()`
SubmitFindOne(h) ==
  LET at == inflight[h]
      doc == NewFeedback(at.body, ClientIp, ClientAgent)
  IN /\ lastReq = NoReq
     /\ at.pc = "findOne"
     /\ IF FindRecent(store, at.email, at.oneHourAgo) # {}
        THEN /\ lastReq' = [op |-> "submit", body |-> at.body]
             /\ lastResp' = DuplicateResp
             /\ inflight' = [inflight EXCEPT ![h] = Idle]
             /\ UNCHANGED nextId
        ELSE IF ~SchemaValid(doc)
        THEN /\ lastReq' = [op |-> "submit", body |-> at.body]
             /\ lastResp' = ServerErrorResp("Failed to submit feedback. Please try again later.")
             /\ inflight' = [inflight EXCEPT ![h] = Idle]
             /\ UNCHANGED nextId
        ELSE /\ inflight' = [inflight EXCEPT ![h] =
                               [pc |-> "save", body |-> at.body,
                                fb |-> Saved(doc, ObjectIdOf(nextId), now)]]
             /\ nextId' = nextId + 1
             /\ UNCHANGED <<lastReq, lastResp>>
     /\ UNCHANGED <<store, now, edits>>

\* SaveInsert repeating the duplicate check at the insert
SaveInsertChecked(docs, fb) ==
  IF \E i \in DOMAIN docs : docs[i].email = fb.email THEN docs ELSE Append(docs, fb)

\* the insert that save() sends
SaveInsert(docs, fb) == Append(docs, fb)

\* the store inserts the document; the handler answers 201
SubmitSave(h) ==
  LET at == inflight[h]
  IN /\ lastReq = NoReq
     /\ at.pc = "save"
     /\ store' = SaveInsert(store, at.fb)
     /\ lastReq' = [op |-> "submit", body |-> at.body]
     /\ lastResp' = CreatedResp(at.fb)
     /\ inflight' = [inflight EXCEPT ![h] = Idle]
     /\ UNCHANGED <<now, nextId, edits>>

\* GET /api/feedback/stats up to `await Promise.all([...])`: the seven
\* queries are sent
StatsBegin ==
  /\ lastReq = NoReq
  /\ inflight[StatsHandler] = Idle
  /\ inflight' = [inflight EXCEPT ![StatsHandler] =
                    [pc |-> "all", results |-> [k \in {} |-> 0]]]
  /\ UNCHANGED <<store, now, nextId, edits, lastReq, lastResp>>

\* the store answers the next of the seven queries, in the order in which
\* they were sent; after the last one getStats runs on to
\* `await this.countDocuments({rating ...})`
StatsAnswer(k) ==
  LET at == inflight[StatsHandler]
      results == [x \in DOMAIN at.results \cup {k} |->
                    IF x = k THEN StatsQuery(k, store) ELSE at.results[x]]
  IN /\ lastReq = NoReq
     /\ at.pc = "all"
     /\ DOMAIN at.results = 1..(k - 1)
     /\ inflight' = [inflight EXCEPT ![StatsHandler] =
                       [pc |-> IF DOMAIN results = StatsQueries THEN "high" ELSE "all",
                        results |-> results]]
     /\ UNCHANGED <<store, now, nextId, edits, lastReq, lastResp>>

\* the store answers the highRatingCount query; the handler responds
StatsHigh ==
  LET at == inflight[StatsHandler]
  IN /\ lastReq = NoReq
     /\ at.pc = "high"
     /\ lastReq' = [op |-> "stats"]
     /\ lastResp' = [status |-> 200, success |-> TRUE,
                     data |-> StatsResult(at.results, HighRatingCount(store)),
                     lastUpdated |-> now]
     /\ inflight' = [inflight EXCEPT ![StatsHandler] = Idle]
     /\ UNCHANGED <<store, now, nextId, edits>>

ConcInit ==
  /\ store = <<>>
  /\ now = 0
  /\ nextId = 1
  /\ edits = 0
  /\ lastReq = NoReq
  /\ lastResp = NoResp
  /\ inflight = [h \in Handlers |-> Idle]

ConcNext ==
  \/ Finish
  \/ Tick
  \/ \E h \in Submitters, b \in ConcBodies : SubmitBegin(h, b)
  \/ \E h \in Submitters : SubmitFindOne(h)
  \/ \E h \in Submitters : SubmitSave(h)
  \/ StatsBegin
  \/ \E k \in StatsQueries : StatsAnswer(k)
  \/ StatsHigh
  \/ Delete(ObjectIdOf(1), <<AdminKeyName, ADMIN_KEY>>)

ConcSpec == ConcInit /\ [][ConcNext]_vars

(***************************************************************************)
(* Properties.                                                             *)
(***************************************************************************)
\* a step that handles a submit, a delete
SubmitStep == lastReq = NoReq /\ lastReq'.op = "submit"
DeleteStep == lastReq = NoReq /\ lastReq'.op = "delete"

\* the documents created within the last 60 minutes whose e-mail equals e
\* ignoring letter case
RecentSameEmail(docs, e, t) ==
  {i \in DOMAIN docs : /\ ToLowerCase(docs[i].email) = ToLowerCase(e)
                       /\ t - docs[i].createdAt <= OneHourMs}

Presented(sent) == IF sent = <<>> THEN <<>> ELSE <<sent[2]>>

\* the identifiers getById serves a record for
Retrievable(docs, t) ==
  {id \in IdParams : GetByIdResponse(docs, t, id).status = 200}

\* C2: a delete whose presented secret is missing or differs from the
\* configured one is answered 401 whether or not the id exists, changes
\* nothing in the store, and every record getById served is still served.
C2_WrongSecretUnauthorized ==
  [][ ( DeleteStep /\ Presented(lastReq'.sent) # <<ADMIN_KEY>> )
      => ( /\ lastResp' = UnauthorizedResp
           /\ lastResp'.status = 401
           /\ store' = store
           /\ \A id \in Retrievable(store, now) :
                GetByIdResponse(store', now', id) = GetByIdResponse(store, now, id) )
    ]_vars

\* C2 witness: a wrong secret on the id of a stored, retrievable record
C2_Witness ==
  /\ lastReq.op = "delete"
  /\ lastReq.sent = <<AdminKeyName, "wrong-key">>
  /\ lastResp = UnauthorizedResp
  /\ lastReq.id \in Retrievable(store, now)

\* C3 (the claim as stated): a delete that presents the configured secret
\* in the adminKey header answers 200 and removes exactly the record of the
\* id when it is stored, after which getById answers 404; it answers 404 and
\* leaves the store unchanged when no record has the id.
C3_Claim ==
  [][ ( /\ DeleteStep
        /\ Presented(lastReq'.sent) = <<ADMIN_KEY>>
        /\ IsObjectId(lastReq'.id) )
      => IF FindById(store, lastReq'.id) # {}
         THEN /\ lastResp' = DeletedResp
              /\ store' = RemoveAt(store, CHOOSE i \in FindById(store, lastReq'.id) : TRUE)
              /\ GetByIdResponse(store', now', lastReq'.id) = NotFoundResp
         ELSE /\ lastResp' = NotFoundResp
              /\ store' = store ]_vars

\* C4 (the claim as stated): every item a list with publicOnly=true returns,
\* whatever the status and priority filters, is the public view of a stored
\* record with isPublic = true and a status other than archived.
C4_Claim ==
  ( lastReq.op = "list" /\ PublicOnlyOf(lastReq.query) = "true" )
  => \A k \in DOMAIN lastResp.data :
       \E i \in DOMAIN store :
         /\ store[i].isPublic
         /\ store[i].status # "archived"
         /\ lastResp.data[k] = ToJSON(store[i], PublicListPaths, now)

\* an identifier the store never hands out
UnusedId == ObjectIdOf(MaxRecords + 1)

\* C5: getById on a stored record that is private or archived answers the
\* very response (404, same body) that getById on an id that is not stored
\* gets; on a stored public, non-archived record it answers 200 with that
\* record.
C5_HiddenLooksAbsent ==
  ( lastReq.op = "getById" /\ IsObjectId(lastReq.id) )
  => LET found == FindById(store, lastReq.id)
     IN /\ FindById(store, UnusedId) = {}
        /\ IF found = {}
           THEN lastResp = NotFoundResp
           ELSE LET d == store[CHOOSE i \in found : TRUE]
                IN IF ~d.isPublic \/ d.status = "archived"
                   THEN /\ lastResp = GetByIdResponse(store, now, UnusedId)
                        /\ lastResp.status = 404
                   ELSE /\ lastResp.status = 200
                        /\ lastResp.data.id = d._id
                        /\ \A f \in {"_id", "name", "email", "message", "rating",
                                     "status", "isPublic", "priority", "tags",
                                     "createdAt"} : lastResp.data[f] = d[f]

\* C5 witness: getById on a stored private record answered Not Found
C5_Witness ==
  /\ lastReq.op = "getById"
  /\ \E i \in DOMAIN store : store[i]._id = lastReq.id /\ ~store[i].isPublic
  /\ lastResp = NotFoundResp

SensitivePaths == {"ipAddress", "userAgent"}
Clean(item) == SensitivePaths \cap DOMAIN item = {}

\* C6: no response of any operation carries an ipAddress or userAgent
\* field, and no item of a list with publicOnly=true carries email or an id.
C6_NoSensitiveFields ==
  /\ Clean(lastResp)
  /\ ( lastResp.status \in {200, 201} /\ lastReq.op \in {"submit", "getById", "stats"} )
       => Clean(lastResp.data)
  /\ lastReq.op \in {"list", "recent"}
       => \A k \in DOMAIN lastResp.data : Clean(lastResp.data[k])
  /\ ( lastReq.op = "list" /\ PublicOnlyOf(lastReq.query) = "true" )
       => \A k \in DOMAIN lastResp.data :
            {"email", "id", "_id"} \cap DOMAIN lastResp.data[k] = {}

\* C6 witness: a public list returned an item of a record that holds the
\* client's address
C6_Witness ==
  /\ lastReq.op = "list"
  /\ PublicOnlyOf(lastReq.query) = "true"
  /\ Len(lastResp.data) >= 1
  /\ store[1].ipAddress = ClientIp

\* C7: a submit whose payload fails validation is answered 400 Validation
\* Error and leaves the store unchanged, also when its e-mail has a record
\* within the last 60 minutes.
C7_InvalidRejectedFirst ==
  [][ ( SubmitStep /\ JoiDetails(lastReq'.body) # <<>> )
      => ( /\ lastResp'.status = 400
           /\ lastResp'.error = "Validation Error"
           /\ store' = store ) ]_vars

\* C7 witness: an invalid payload with the e-mail of a recent record got 400
C7_Witness ==
  /\ lastReq.op = "submit"
  /\ lastResp.status = 400
  /\ RecentSameEmail(store, lastReq.body.email, now) # {}

\* the four text fields satisfy their rules
FieldsValid(b) ==
  /\ NameViolation(b) = <<>>
  /\ EmailViolation(b) = <<>>
  /\ ContactViolation(b) = <<>>
  /\ MessageViolation(b) = <<>>

\* the payload is not a duplicate and the document passes the schema
Storable(docs, b, t) ==
  /\ RecentSameEmail(docs, b.email, t) = {}
  /\ SchemaValid(NewFeedback(b, ClientIp, ClientAgent))

\* C8 (the claim as stated): a submission with valid fields, with or
\* without a rating in 1..5, is accepted with 201; the stored rating is the
\* supplied one, or 5 when omitted, and the stored e-mail is the input
\* lower-cased and trimmed.
C8_Claim ==
  [][ ( /\ SubmitStep
        /\ FieldsValid(lastReq'.body)
        /\ Has(lastReq'.body, "rating") => lastReq'.body.rating \in RatingMin..RatingMax
        /\ Storable(store, lastReq'.body, now) )
      => ( /\ lastResp'.status = 201
           /\ Len(store') = Len(store) + 1
           /\ store'[Len(store')].rating =
                (IF Has(lastReq'.body, "rating") THEN lastReq'.body.rating
                 ELSE RatingDefault)
           /\ store'[Len(store')].email = ToLowerCase(Trim(lastReq'.body.email)) )
    ]_vars

\* C9 (the claim as stated): a submission without contactNumber whose name,
\* e-mail and message are valid is stored with 201; one with a contactNumber
\* is accepted exactly when its length is between 10 and 20.
C9_Claim ==
  [][ ( /\ SubmitStep
        /\ NameViolation(lastReq'.body) = <<>>
        /\ EmailViolation(lastReq'.body) = <<>>
        /\ MessageViolation(lastReq'.body) = <<>>
        /\ ~Has(lastReq'.body, "rating")
        /\ RecentSameEmail(store, lastReq'.body.email, now) = {}
        /\ SchemaEmailMatch(ToLowerCase(Trim(lastReq'.body.email))) )
      => IF Has(lastReq'.body, "contactNumber")
         THEN lastResp'.status = 201
                <=> ( /\ Len(lastReq'.body.contactNumber) >= ContactMin
                      /\ Len(lastReq'.body.contactNumber) <= ContactMax )
         ELSE lastResp'.status = 201 /\ Len(store') = Len(store) + 1 ]_vars

\* the violations of the four declared fields, one per offending field
PerFieldViolations(b) ==
  NameViolation(b) \o EmailViolation(b) \o ContactViolation(b) \o MessageViolation(b)

\* C10 (the claim as stated): the 400 response lists one violation message
\* for every offending field, and its primary message is that of the first
\* offending field.
C10_Claim ==
  ( lastReq.op = "submit" /\ lastResp.status = 400
      /\ PerFieldViolations(lastReq.body) # <<>> )
  => /\ \A m \in Range(PerFieldViolations(lastReq.body)) : m \in Range(lastResp.details)
     /\ lastResp.message = PerFieldViolations(lastReq.body)[1]

\* a step that handles a getById
GetByIdStep == lastReq = NoReq /\ lastReq'.op = "getById"

\* C14 (the claim as stated): getById and deleteById called with a
\* malformed identifier answer 400, and leave the store unchanged.
C14_Claim ==
  [][ ( (GetByIdStep \/ DeleteStep) /\ ~IsObjectId(lastReq'.id) )
      => ( lastResp'.status = 400 /\ store' = store ) ]_vars

\* local-part@domain with at least two domain labels and a top-level label
\* of two or more characters
StandardEmail(s) ==
  /\ AtCount(s) = 1
  /\ Len(LocalPart(s)) >= 1
  /\ \A c \in Range(LocalPart(s)) : IsWordChar(c) \/ c \in {".", "-", "+"}
  /\ Cardinality(Pieces(DomainPart(s), ".")) >= 2
  /\ \A p \in Pieces(DomainPart(s), ".") :
       Len(p) >= 1 /\ \A c \in Range(p) : IsWordChar(c) \/ c = "-"
  /\ Len(LastPiece(DomainPart(s), ".")) >= 2

\* C15 (the claim as stated): a submit whose name, contact number and
\* message satisfy their length bounds, whose e-mail is local-part@domain
\* with a top-level label of 2 or more characters, and that is not a
\* duplicate, is answered 201 and its record is stored.
C15_Claim ==
  [][ ( /\ SubmitStep
        /\ NameViolation(lastReq'.body) = <<>>
        /\ ContactViolation(lastReq'.body) = <<>>
        /\ MessageViolation(lastReq'.body) = <<>>
        /\ DOMAIN lastReq'.body = Range(SchemaKeys)
        /\ StandardEmail(lastReq'.body.email)
        /\ RecentSameEmail(store, lastReq'.body.email, now) = {} )
      => ( /\ lastResp'.status = 201
           /\ Len(store') = Len(store) + 1
           /\ store'[Len(store')].email = ToLowerCase(Trim(lastReq'.body.email)) )
    ]_vars

\* the list request getRecent(limit) is said to equal
PublicPageOne(limit) ==
  [page |-> 1, limit |-> limit, status |-> <<>>, priority |-> <<>>,
   publicOnly |-> <<"true">>]

\* C18 (the claim as stated): the items of recent(limit) are the items of
\* the list with publicOnly=true, page 1, pageSize=limit and no filter, in
\* the same order and with the same fields, and carry no id and no email.
C18_Claim ==
  lastReq.op = "recent"
  => /\ \E order \in SortedOrders(store, Find(store, BuildQuery(PublicPageOne(lastReq.limit)))) :
          lastResp.data = ListResponse(store, now, PublicPageOne(lastReq.limit), order).data
     /\ \A k \in DOMAIN lastResp.data :
          {"id", "_id", "email"} \cap DOMAIN lastResp.data[k] = {}

Max(a, b) == IF a >= b THEN a ELSE b

\* C12: a list request with page p >= 1 and page size s >= 1 over the N
\* records matching its filter returns min(s, max(0, N - (p-1)*s)) items,
\* which are the records in positions (p-1)*s+1 .. p*s of an order of the
\* matching records that descends in creation time; totalItems = N,
\* hasNextPage holds exactly when p*s < N, hasPrevPage exactly when p > 1.
C12_Pagination ==
  lastReq.op = "list"
  => LET q == lastReq.query
         matching == Find(store, BuildQuery(q))
         N == Cardinality(matching)
         first == (q.page - 1) * q.limit + 1
         count == Min(q.limit, Max(0, N - (q.page - 1) * q.limit))
         paths == IF PublicOnlyOf(q) = "true" THEN PublicListPaths ELSE AdminPaths
     IN /\ Len(lastResp.data) = count
        /\ \E order \in [1..N -> matching] :
             /\ \A i, j \in 1..N : i # j => order[i] # order[j]
             /\ \A i, j \in 1..N :
                  i < j => store[order[i]].createdAt >= store[order[j]].createdAt
             /\ \A k \in 1..count :
                  lastResp.data[k] = ToJSON(store[order[first + k - 1]], paths, now)
        /\ lastResp.pagination.totalItems = N
        /\ lastResp.pagination.hasNextPage = (q.page * q.limit < N)
        /\ lastResp.pagination.hasPrevPage = (q.page > 1)

\* C12 witness: page 2 of size 2 over three matching records holds the
\* oldest one alone, with no next page and a previous page
C12_Witness ==
  /\ lastReq.op = "list"
  /\ lastReq.query.page = 2 /\ lastReq.query.limit = 2
  /\ Cardinality(Find(store, BuildQuery(lastReq.query))) = 3
  /\ Len(lastResp.data) = 1
  /\ lastResp.data[1].createdAt = store[1].createdAt
  /\ store[1].createdAt < store[2].createdAt
  /\ ~lastResp.pagination.hasNextPage
  /\ lastResp.pagination.hasPrevPage

\* the creation in hand has stored its record
Created == lastReq.op = "create" /\ lastResp # NoResp /\ store # <<>>

\* the six tagging rules: the tag and its keywords
TagRules ==
  { <<BugReportTag, BugWords>>, <<FeatureRequestTag, FeatureWords>>,
    <<MobileAppTag, MobileWords>>, <<HardwareTag, HardwareWords>>,
    <<PositiveTag, PositiveWords>>, <<NegativeTag, NegativeWords>> }

\* the tags of the rules of which a keyword occurs in the text m
RuleTags(m) == { r[1] : r \in {x \in TagRules : \E w \in x[2] : Includes(m, w)} }

\* the caller-supplied tags, as the schema stores them (trimmed, lower case)
SuppliedTags(data) ==
  IF Has(data, "tags") THEN { ToLowerCase(Trim(t)) : t \in Range(data.tags) }
  ELSE {}

\* C13: the tags stored for a created record are, without duplicates, the
\* caller-supplied tags together with exactly the tags of the rules of
\* which a keyword occurs in the lower-cased message, each rule on its own;
\* the priority is high whenever the bug-report or the negative rule
\* matches; a message with a bug keyword and a positive keyword gets both
\* tags and priority high.
C13_AutoTags ==
  Created
  => LET d == store[Len(store)]
         m == ToLowerCase(lastReq.data.message)
     IN /\ Range(d.tags) = SuppliedTags(lastReq.data) \cup RuleTags(m)
        /\ \A i, j \in DOMAIN d.tags : i # j => d.tags[i] # d.tags[j]
        /\ ( BugReportTag \in RuleTags(m) \/ NegativeTag \in RuleTags(m) )
             => d.priority = "high"
        /\ ( IncludesAny(m, BugWords) /\ IncludesAny(m, PositiveWords) )
             => /\ {BugReportTag, PositiveTag} \subseteq Range(d.tags)
                /\ d.priority = "high"

\* C13 witness: a record created from a message with a bug keyword and a
\* positive keyword in capitals, with caller-supplied tags, one of them
\* spelt " Positive"
C13_Witness ==
  /\ Created
  /\ Includes(lastReq.data.message, <<"I","S","S","U","E">>)
  /\ Includes(lastReq.data.message, <<"L","O","V","E">>)
  /\ Has(lastReq.data, "tags")
  /\ store[1].priority = "high"
  /\ Len(store[1].tags) > 3

\* C17 (the claim as stated): a record created with priority urgent whose
\* message matches the bug-report or the negative rule is stored with
\* priority urgent; a record is escalated to high only from a priority
\* below high.
C17_Claim ==
  Created
  => LET d == store[Len(store)]
         given == IF Has(lastReq.data, "priority") THEN lastReq.data.priority
                  ELSE "medium"
         m == ToLowerCase(lastReq.data.message)
     IN /\ ( given = "urgent"
               /\ (IncludesAny(m, BugWords) \/ IncludesAny(m, NegativeWords)) )
             => d.priority = "urgent"
        /\ ( d.priority = "high" /\ given # "high" ) => given \in {"low", "medium"}

\* the number of stored records that satisfy a condition on one path
Having(path, values) == Cardinality({i \in DOMAIN store : store[i][path] \in values})

RECURSIVE SumOf(_)
SumOf(xs) == IF xs = <<>> THEN 0 ELSE Head(xs) + SumOf(Tail(xs))

\* the counts of a stats response are those of the store, and on a store
\* with records its satisfactionPercentage is 100 * highRatingCount / total
\* rounded (halves upwards) and its averageRating, in tenths, a tenth
\* nearest to the mean rating
StatsOfStore ==
  LET d == lastResp.data
      total == Len(store)
      high == Having("rating", 4..RatingMax)
      sum == SumOf([i \in DOMAIN store |-> store[i].rating])
  IN /\ d.total = total
     /\ d.new = Having("status", {"new"})
     /\ d.read = Having("status", {"read"})
     /\ d.responded = Having("status", {"responded"})
     /\ d.highPriority = Having("priority", {"high"})
     /\ d.urgent = Having("priority", {"urgent"})
     /\ d.highRatingCount = high
     /\ total > 0
          => /\ 2 * (100 * high - d.satisfactionPercentage * total) < total
             /\ 2 * (100 * high - d.satisfactionPercentage * total) >= -total
             /\ 2 * (10 * sum - d.averageRating * total) <= total
             /\ 2 * (10 * sum - d.averageRating * total) >= -total

\* C11 (as amended): on a store with no concurrent writers stats returns
\* the counts of the store, the rounded satisfaction percentage and the
\* mean rating rounded to one decimal when the store has records, and 97
\* and 4.8 when the store is empty.
C11_Stats ==
  lastReq.op = "stats"
  => /\ StatsOfStore
     /\ store = <<>>
          => /\ lastResp.data.satisfactionPercentage = 97
             /\ lastResp.data.averageRating = 48

\* C11 witness: the ratings 5, 5, 4, 3, 2 give 3, 60 and 3.8
C11_Witness ==
  /\ lastReq.op = "stats"
  /\ [i \in DOMAIN store |-> store[i].rating] = <<5, 5, 4, 3, 2>>
  /\ lastResp.data.highRatingCount = 3
  /\ lastResp.data.satisfactionPercentage = 60
  /\ lastResp.data.averageRating = 38

\* C11 (the claim as stated): as above, and satisfactionPercentage = 97
\* together with averageRating = 4.8 is returned exactly when the store is
\* empty.
C11_Claim ==
  lastReq.op = "stats"
  => /\ StatsOfStore
     /\ ( /\ lastResp.data.satisfactionPercentage = 97
          /\ lastResp.data.averageRating = 48 ) <=> store = <<>>

\* a submit handler h leaves its save, that is, its insert is carried out
SaveStep(h) == inflight[h].pc = "save" /\ inflight'[h].pc # "save"

\* C16: the duplicate check and the create are not atomic: a handler that
\* passed the check inserts its record when its save is carried out,
\* whatever the store holds by then, so that two handlers of one e-mail can
\* both pass the check and both create; at most one record per e-mail per
\* 60 minutes is not an invariant.
C16_CheckThenCreate ==
  [][ \A h \in Submitters :
        SaveStep(h)
        => /\ store' = Append(store, inflight[h].fb)
           /\ lastResp'.status = 201 ]_vars

\* C16 witness: two stored records of one e-mail created within 60 minutes
\* of each other, while the last save answered 201
C16_Witness ==
  /\ \E i, j \in DOMAIN store :
       /\ i < j
       /\ store[i].email = store[j].email
       /\ store[j].createdAt - store[i].createdAt < OneHourMs
  /\ lastReq.op = "submit"
  /\ lastResp.status = 201

\* C19 (the claim as stated): every snapshot that stats returns has
\* highRatingCount <= total and 0 <= satisfactionPercentage <= 100, also
\* when submits interleave with the queries of the stats operation.
C19_Claim ==
  lastReq.op = "stats"
  => /\ lastResp.data.highRatingCount <= lastResp.data.total
     /\ lastResp.data.satisfactionPercentage >= 0
     /\ lastResp.data.satisfactionPercentage <= 100

=============================================================================
